---- MODULE Spec2Model ----
(***************************************************************************)
(* pgback.py: PostgreSQL backup script.  The script is one sequential      *)
(* top-level flow (create or restore) that shells out to external tools.  *)
(* Text values are sequences of one-character strings so that slicing,    *)
(* suffix tests and find() are computed as the script computes them.      *)
(* A datetime is the tuple <<year, month, day, hour, minute, second>>;    *)
(* a failed parse (ValueError) is the empty tuple.                        *)
(***************************************************************************)
EXTENDS Integers, Sequences, FiniteSets, TLC

\* longest `aws s3 ls` output (in lines) the search is run on
MaxListing == 2

(***************************************************************************)
(* Python string primitives                                                *)
(***************************************************************************)

\* s[-n:]
LastN(s, n) == IF Len(s) <= n THEN s ELSE SubSeq(s, Len(s) - n + 1, Len(s))

\* s[:-n]
DropLast(s, n) == IF Len(s) <= n THEN <<>> ELSE SubSeq(s, 1, Len(s) - n)

\* s[a:b] for a >= 0 and any b (a negative b counts from the end)
Slice(s, a, b) ==
    SubSeq(s, a + 1, IF b < 0 THEN (IF Len(s) + b < 0 THEN 0 ELSE Len(s) + b)
                     ELSE (IF b > Len(s) THEN Len(s) ELSE b))

\* s[a:]
SliceFrom(s, a) == SubSeq(s, a + 1, Len(s))

\* s.find(sub): lowest 0-based index of sub in s, -1 when absent
Occurrences(s, sub) == { i \in 0..(Len(s) - Len(sub)) : SubSeq(s, i + 1, i + Len(sub)) = sub }
Find(s, sub) ==
    LET hits == Occurrences(s, sub)
    IN  IF hits = {} THEN -1 ELSE CHOOSE i \in hits : \A j \in hits : i <= j

\* os.path.basename: the text after the last "/"
Slashes(p) == { i \in 1..Len(p) : p[i] = "/" }
Basename(p) ==
    LET slashes == Slashes(p)
    IN  IF slashes = {} THEN p
        ELSE SliceFrom(p, CHOOSE i \in slashes : \A j \in slashes : j <= i)

\* str.lower() on the answers the prompt can read
Lower(s) == [i \in 1..Len(s) |-> IF s[i] = "Y" THEN "y" ELSE IF s[i] = "N" THEN "n" ELSE s[i]]

(***************************************************************************)
(* Configuration table and filename convention                            *)
(***************************************************************************)

Sep == <<"_", "_">>
ExtPgdump == <<".", "p", "g", "d", "u", "m", "p">>
ExtGz == <<".", "g", "z">>
ExtGpg == <<".", "g", "p", "g">>

\* conf["--savefmt"] = "%Y-%m-%d_%H-%M-%S", as directive and literal tokens
SaveFmt == <<"%Y", "-", "%m", "-", "%d", "_", "%H", "-", "%M", "-", "%S">>

\* conf["--datefmt"] = "%d/%m/%Y"
DateFmt == <<"%d", "/", "%m", "/", "%Y">>

\* conf["--dir"] after path.abspath(...).rstrip("/")
Workdir == <<"/", "b">>

(***************************************************************************)
(* datetime.strftime / datetime.strptime                                   *)
(***************************************************************************)

Digits == <<"0", "1", "2", "3", "4", "5", "6", "7", "8", "9">>
DigitSet == { Digits[i] : i \in 1..10 }
DigitVal(c) == (CHOOSE i \in 1..10 : Digits[i] = c) - 1
Directives == {"%Y", "%m", "%d", "%H", "%M", "%S"}

\* position of a directive's field in the datetime tuple
FieldOf(tok) ==
    CASE tok = "%Y" -> 1 [] tok = "%m" -> 2 [] tok = "%d" -> 3
      [] tok = "%H" -> 4 [] tok = "%M" -> 5 [] tok = "%S" -> 6

Pad2(n) == <<Digits[((n \div 10) % 10) + 1], Digits[(n % 10) + 1]>>
Pad4(n) == <<Digits[((n \div 1000) % 10) + 1], Digits[((n \div 100) % 10) + 1]>> \o Pad2(n)

RECURSIVE strftime(_, _)
strftime(dt, fmt) ==
    IF fmt = <<>> THEN <<>>
    ELSE (IF Head(fmt) = "%Y" THEN Pad4(dt[1])
          ELSE IF Head(fmt) \in Directives THEN Pad2(dt[FieldOf(Head(fmt))])
          ELSE <<Head(fmt)>>) \o strftime(dt, Tail(fmt))

\* the digits a text starts with
RECURSIVE DigitCount(_, _)
DigitCount(s, i) == IF i < Len(s) /\ s[i + 1] \in DigitSet THEN DigitCount(s, i + 1) ELSE i
DigitRun(s) == SubSeq(s, 1, DigitCount(s, 0))

RECURSIVE NumValUpTo(_, _)
NumValUpTo(ds, n) == IF n = 0 THEN 0 ELSE 10 * NumValUpTo(ds, n - 1) + DigitVal(ds[n])
NumVal(ds) == NumValUpTo(ds, Len(ds))

\* the directive's regular expression: %Y is \d\d\d\d, the others one or two
\* digits within the directive's range
FieldOk(tok, run) ==
    CASE tok = "%Y" -> Len(run) = 4
      [] tok = "%m" -> Len(run) \in {1, 2} /\ NumVal(run) \in 1..12
      [] tok = "%d" -> Len(run) \in {1, 2} /\ NumVal(run) \in 1..31
      [] tok = "%H" -> Len(run) \in {1, 2} /\ NumVal(run) \in 0..23
      [] tok = "%M" -> Len(run) \in {1, 2} /\ NumVal(run) \in 0..59
      [] tok = "%S" -> Len(run) \in {1, 2} /\ NumVal(run) \in 0..61

IsLeap(y) == (y % 4 = 0 /\ y % 100 # 0) \/ y % 400 = 0

DaysInMonth(y, m) ==
    IF m = 2 THEN (IF IsLeap(y) THEN 29 ELSE 28)
    ELSE IF m \in {4, 6, 9, 11} THEN 30 ELSE 31

\* the datetime(...) constructor's range checks
ValidDatetime(dt) ==
    /\ dt[1] \in 1..9999
    /\ dt[3] <= DaysInMonth(dt[1], dt[2])
    /\ dt[6] <= 59

ParseError == <<>>

RECURSIVE Match(_, _, _)
Match(text, fmt, acc) ==
    IF fmt = <<>> THEN (IF text = <<>> THEN acc ELSE ParseError)
    ELSE IF Head(fmt) \in Directives
    THEN LET run == DigitRun(text)
         IN  IF FieldOk(Head(fmt), run)
             THEN Match(SliceFrom(text, Len(run)), Tail(fmt),
                        [acc EXCEPT ![FieldOf(Head(fmt))] = NumVal(run)])
             ELSE ParseError
    ELSE IF text # <<>> /\ Head(text) = Head(fmt)
         THEN Match(Tail(text), Tail(fmt), acc)
         ELSE ParseError

\* datetime.strptime(text, fmt); fields the format lacks default to 1900-01-01 00:00:00
CheckedDatetime(dt) == IF dt # ParseError /\ ValidDatetime(dt) THEN dt ELSE ParseError
strptime(text, fmt) == CheckedDatetime(Match(text, fmt, <<1900, 1, 1, 0, 0, 0>>))

\* datetime.date()
DateOf(dt) == SubSeq(dt, 1, 3)

\* a > b on datetimes
RECURSIVE TupleGt(_, _)
TupleGt(a, b) ==
    IF a = <<>> \/ b = <<>> THEN FALSE
    ELSE IF Head(a) # Head(b) THEN Head(a) > Head(b)
    ELSE TupleGt(Tail(a), Tail(b))

(***************************************************************************)
(* parseFilename and findNewest                                            *)
(***************************************************************************)

StripGpg(f) == IF LastN(f, 4) = ExtGpg THEN DropLast(f, 4) ELSE f
StripGz(f) == IF LastN(f, 3) = ExtGz THEN DropLast(f, 3) ELSE f
StripPgdump(f) == IF LastN(f, 7) = ExtPgdump THEN DropLast(f, 7) ELSE f

\* parseFilename without the .gz step
StemKeepingGz(filename) == StripPgdump(StripGpg(Basename(filename)))

\* parseFilename: basename, then strip .gpg, .gz and .pgdump
Stem(filename) == StripPgdump(StripGz(StripGpg(Basename(filename))))

\* parseFilename: dbname = filename[0:sep], dbdate = strptime(filename[sep+2:], savefmt)
splitAt(stem, sep) ==
    LET dbname == Slice(stem, 0, sep)
        dbdate == strptime(SliceFrom(stem, sep + 2), SaveFmt)
    IN  IF dbdate = ParseError THEN ParseError ELSE <<dbname, dbdate>>

\* parseFilename(filename): <<dbname, dbdate>>, or ParseError when strptime raises
parseFilename(filename) ==
    LET stem == Stem(filename)
    IN  splitAt(stem, Find(stem, Sep))

\* the for loop of findNewest over backups[from..]
RECURSIVE NewestFrom(_, _, _)
NewestFrom(backups, from, match) ==
    IF from > Len(backups) THEN match
    ELSE NewestFrom(backups, from + 1,
                    IF TupleGt(backups[from][2], match[2]) THEN backups[from] ELSE match)

\* findNewest returning the last listed backup
findLastListed(backups) == backups[Len(backups)]

\* findNewest(backups), backups non-empty; a backup is <<dbname, dbdate, filename>>
findNewest(backups) ==
    IF Len(backups) = 1 THEN backups[1] ELSE NewestFrom(backups, 1, backups[1])

(***************************************************************************)
(* Inputs: command line, clock, bucket listing, keyboard                   *)
(***************************************************************************)

\* create: filename = dbName + "__" + datetime.now().strftime(savefmt) + ".pgdump"
encodeFilename(dbName, t) == dbName \o Sep \o strftime(t, SaveFmt) \o ExtPgdump

MyDb == <<"m", "y", "d", "b">>
OtherDb == <<"a", "b">>
NewDb == <<"n", "e", "w">>

\* <source-db> values given to create
DbNames == { MyDb, <<"a", "_", "b">>, <<"a", "_">>, <<"a", "/", "b">>, <<"a", "_", "_", "b">> }

\* <source-db-name> values given to restore
SourceNames == { MyDb, OtherDb }

\* values of datetime.now()
Times == { <<2021, 3, 1, 0, 0, 0>>, <<2021, 3, 1, 9, 30, 5>>, <<2020, 12, 31, 23, 59, 59>> }

\* --date values, written in --datefmt
DateArgs == { <<"0", "1", "/", "0", "3", "/", "2", "0", "2", "1">>,
              <<"3", "1", "/", "1", "2", "/", "2", "0", "2", "0">> }

\* object names a bucket may hold
BucketFiles ==
    { encodeFilename(MyDb, <<2021, 3, 1, 0, 0, 0>>),
      encodeFilename(MyDb, <<2021, 3, 1, 0, 0, 0>>) \o ExtGz,
      encodeFilename(MyDb, <<2021, 3, 1, 9, 30, 5>>) \o ExtGz \o ExtGpg,
      encodeFilename(MyDb, <<2020, 12, 31, 23, 59, 59>>) \o ExtGpg,
      encodeFilename(OtherDb, <<2022, 1, 1, 0, 0, 0>>),
      <<"x">> \o strftime(<<2021, 3, 1, 0, 0, 0>>, SaveFmt) \o ExtPgdump,
      <<"r", "e", "a", "d", "m", "e">> }

\* --name values
NameArgs == { encodeFilename(MyDb, <<2021, 3, 1, 0, 0, 0>>), MyDb }

\* a line of `aws s3 ls`, as line.split(None, 3) splits it:
\* <<date, time, size, filename>>, or <<"PRE", prefix>> for a folder
ObjectLine(f) == <<"2021-03-02", "10:00:00", "1024", f>>
PrefixLine == <<"PRE", <<"o", "l", "d", "/">>>>
Lines == { ObjectLine(f) : f \in BucketFiles } \cup { PrefixLine }

RECURSIVE SeqsUpTo(_, _)
SeqsUpTo(S, n) ==
    IF n = 0 THEN { <<>> }
    ELSE SeqsUpTo(S, n - 1) \cup
         { Append(q, x) : q \in { r \in SeqsUpTo(S, n - 1) : Len(r) = n - 1 }, x \in S }

\* outputs of `aws s3 ls`
Listings == SeqsUpTo(Lines, MaxListing)

\* lines raw_input() may return
Answers == { <<"y">>, <<"Y">>, <<"n">>, <<>> }

NoText == <<>>

VARIABLES
    args,         \* docopt arguments merged with conf (read through arg())
    pc,           \* position in the script
    filename,     \* global `filename`
    absFilename,  \* global `absFilename`
    now,          \* datetime.now() read by create
    listing,      \* output of `aws s3 ls`
    backups,      \* searchOnS3's `backups`
    events,       \* external processes spawned and prompt lines read, in order
    logs,         \* levels of the lines appended to the logfile
    exitCode,     \* -1 while running, then the process exit status
    exc           \* uncaught exception that ended the script, or "none"

vars == <<args, pc, filename, absFilename, now, listing, backups, events, logs, exitCode, exc>>

Event(tool, file, status) == [tool |-> tool, file |-> file, status |-> status]

Running == -1

(***************************************************************************)
(* promptYesNo                                                             *)
(***************************************************************************)

\* promptYesNo with every answer taken for a yes
promptAlwaysYes(choice) == TRUE

\* promptYesNo with --silent skipping the question like --noconfirm
promptSkippedWhenSilent(choice) ==
    IF args.noconfirm \/ args.silent THEN TRUE ELSE Lower(choice) = <<"y">>

\* promptYesNo(message) with default=False, raw_input() returning choice
promptYesNo(choice) ==
    IF args.noconfirm THEN TRUE ELSE Lower(choice) = <<"y">>

\* what the prompt adds to the run: nothing is read under -x/--noconfirm
PromptEvents(choice) ==
    IF args.noconfirm THEN events ELSE Append(events, Event("raw_input", choice, 0))

(***************************************************************************)
(* searchOnS3                                                              *)
(***************************************************************************)

\* the loop over res.splitlines() without the `dbname == sourceDbName` test
RECURSIVE ParseLinesKeepingAll(_, _, _)
ParseLinesKeepingAll(lines, sourceDbName, acc) ==
    IF lines = <<>> THEN [exc |-> "none", backups |-> acc]
    ELSE LET line == Head(lines)
         IN  IF Len(line) < 4 THEN [exc |-> "IndexError", backups |-> acc]
             ELSE LET parsed == parseFilename(line[4])
                  IN  IF parsed = ParseError THEN [exc |-> "ValueError", backups |-> acc]
                      ELSE ParseLinesKeepingAll(Tail(lines), sourceDbName,
                                                Append(acc, <<parsed[1], parsed[2], line[4]>>))

\* the loop over res.splitlines()
RECURSIVE ParseLines(_, _, _)
ParseLines(lines, sourceDbName, acc) ==
    IF lines = <<>> THEN [exc |-> "none", backups |-> acc]
    ELSE LET line == Head(lines)
         IN  IF Len(line) < 4 THEN [exc |-> "IndexError", backups |-> acc]
             ELSE LET parsed == parseFilename(line[4])
                  IN  IF parsed = ParseError THEN [exc |-> "ValueError", backups |-> acc]
                      ELSE ParseLines(Tail(lines), sourceDbName,
                                      IF parsed[1] = sourceDbName
                                      THEN Append(acc, <<parsed[1], parsed[2], line[4]>>)
                                      ELSE acc)

\* --date without the date test
dateMatchesEverything(bs, targetDate) == bs

\* --date: backups whose date equals targetDate
dateMatches(bs, targetDate) ==
    SelectSeq(bs, LAMBDA b : targetDate = DateOf(b[2]))

\* --name: the loop `if backup[0] == name: match = name`
nameMatch(bs, name) ==
    IF \E i \in 1..Len(bs) : bs[i][1] = name THEN name ELSE NoText

Outcome(x, code, lg, match) == [exc |-> x, exit |-> code, logs |-> lg, match |-> match]

\* searchOnS3 after the listing is parsed
selectBackup(bs, date, name) ==
    IF Len(bs) < 1 THEN Outcome("none", 1, <<"ERROR">>, NoText)
    ELSE IF date # NoText
    THEN LET target == strptime(date, DateFmt)
         IN  IF target = ParseError THEN Outcome("ValueError", 1, <<>>, NoText)
             ELSE LET matches == dateMatches(bs, DateOf(target))
                  IN  IF Len(matches) < 1 THEN Outcome("none", 1, <<"ERROR">>, NoText)
                      ELSE Outcome("none", Running, <<"Success">>, findNewest(matches)[3])
    ELSE IF name # NoText
    THEN LET match == nameMatch(bs, name)
         IN  IF match = NoText THEN Outcome("none", 1, <<"ERROR">>, NoText)
             ELSE IF Len(match) < 3 THEN Outcome("IndexError", 1, <<>>, NoText)
             ELSE Outcome("none", Running, <<"Success">>, <<match[3]>>)
    ELSE Outcome("none", Running, <<"Success">>, findNewest(bs)[3])

(***************************************************************************)
(* Initial state: the command line                                         *)
(***************************************************************************)

CreateArgs ==
    [ command : {"create"}, target : {"s3", "fileserver", "local", "all"},
      peer : BOOLEAN, noconfirm : BOOLEAN, silent : BOOLEAN, nozip : BOOLEAN,
      gpgname : BOOLEAN, gpgpass : BOOLEAN,
      dbName : DbNames, sourceDbName : {NoText}, date : {NoText}, name : {NoText} ]

RestoreArgs ==
    { a \in [ command : {"restore"}, target : {"s3", "fileserver", "local"},
              peer : BOOLEAN, noconfirm : BOOLEAN, silent : BOOLEAN, nozip : {FALSE},
              gpgname : {FALSE}, gpgpass : {FALSE},
              dbName : {NewDb}, sourceDbName : SourceNames,
              date : DateArgs \cup {NoText}, name : NameArgs \cup {NoText} ] :
        a.date = NoText \/ a.name = NoText }

Init ==
    /\ args \in CreateArgs \cup RestoreArgs
    /\ pc = "start"
    /\ filename = NoText
    /\ absFilename = NoText
    /\ now = <<>>
    /\ listing = <<>>
    /\ backups = <<>>
    /\ events = <<>>
    /\ logs = <<>>
    /\ exitCode = Running
    /\ exc = "none"

(***************************************************************************)
(* cmd(): run one shell command and wait for it                            *)
(***************************************************************************)

\* cmd(message, detail, command): the command exits with `status`; lg is the
\* log so far, next the position after the call returns
cmd(tool, file, status, lg, next) ==
    /\ events' = Append(events, Event(tool, file, status))
    /\ IF status = 0
       THEN /\ logs' = Append(lg, "SUCCESS")
            /\ pc' = next
            /\ exitCode' = IF next = "done" THEN 0 ELSE Running
       ELSE /\ logs' = Append(lg, "ERROR")
            /\ pc' = "done"
            /\ exitCode' = 1
    /\ exc' = exc

\* an uncaught exception: traceback, exit status 1, nothing logged
raise(x) ==
    /\ exc' = x
    /\ pc' = "done"
    /\ exitCode' = 1

ExitStatuses == {0, 1}
(***************************************************************************)
(* Both commands: working directory check                                  *)
(***************************************************************************)

\* log("", "Starting ..."), then `if not path.isdir(workdir)`
CheckWorkdir ==
    /\ pc = "start"
    /\ \E isdir \in BOOLEAN :
         IF isdir
         THEN /\ logs' = Append(logs, "")
              /\ pc' = IF args.command = "create" THEN "dump"
                       ELSE IF args.target = "s3" THEN "search" ELSE "nosearch"
              /\ exitCode' = exitCode
         ELSE /\ logs' = logs \o <<"", IF args.command = "create" THEN "ERROR" ELSE "FATAL ERROR">>
              /\ pc' = "done"
              /\ exitCode' = 1
    /\ UNCHANGED <<args, filename, absFilename, now, listing, backups, events, exc>>

(***************************************************************************)
(* create                                                                  *)
(***************************************************************************)

\* position after each stage of the create block
AfterDump == "gzip"
AfterGzip == "encrypt"
AfterEncrypt == "upload"

\* uploadToS3 handed the reference of the plain dump
UploadRefOfDump == Workdir \o <<"/">> \o filename

\* the file reference handed to uploadToS3
UploadRef == absFilename

\* generate the filename, then dumpDatabasePeer / dumpDatabasePassword
DumpDatabase ==
    /\ pc = "dump"
    /\ \E t \in Times, status \in ExitStatuses :
         /\ now' = t
         /\ filename' = encodeFilename(args.dbName, t)
         /\ absFilename' = Workdir \o <<"/">> \o filename'
         /\ cmd("pg_dump", absFilename', status, logs, AfterDump)
    /\ UNCHANGED <<args, listing, backups>>

\* gzipFile(absFilename)
gzipFile ==
    /\ pc = "gzip"
    /\ IF args.nozip
       THEN /\ pc' = AfterGzip
            /\ UNCHANGED <<absFilename, events, logs, exitCode, exc>>
       ELSE \E status \in ExitStatuses :
              /\ cmd("gzip", absFilename, status, logs, AfterGzip)
              /\ absFilename' = IF status = 0 THEN absFilename \o ExtGz ELSE absFilename
    /\ UNCHANGED <<args, filename, now, listing, backups>>

\* encryptFile(absFilename, recipient, password) up to the gpg command
encryptFile ==
    /\ pc = "encrypt"
    /\ IF ~args.gpgpass /\ ~args.gpgname
       THEN /\ pc' = AfterEncrypt
            /\ UNCHANGED <<events, logs, exitCode, exc>>
       ELSE \E status \in ExitStatuses :
              cmd(IF args.gpgname THEN "gpg -e" ELSE "gpg -c", absFilename, status,
                  IF args.gpgpass /\ args.gpgname THEN Append(logs, "INFO") ELSE logs,
                  "encrypt_rm")
    /\ UNCHANGED <<args, filename, absFilename, now, listing, backups>>

\* encryptFile: `rm -f` of the non-encrypted file, then return absFilename + ".gpg"
encryptCleanup ==
    /\ pc = "encrypt_rm"
    /\ \E status \in ExitStatuses :
         /\ cmd("rm", absFilename, status, logs, AfterEncrypt)
         /\ absFilename' = IF status = 0 THEN absFilename \o ExtGpg ELSE absFilename
    /\ UNCHANGED <<args, filename, now, listing, backups>>

\* `if arg("all") or arg("s3"): uploadToS3(...)`, then the end of the script
uploadToS3 ==
    /\ pc = "upload"
    /\ IF args.target \in {"all", "s3"}
       THEN \E status \in ExitStatuses : cmd("s3_upload", UploadRef, status, logs, "done")
       ELSE /\ pc' = "done"
            /\ exitCode' = 0
            /\ UNCHANGED <<events, logs, exc>>
    /\ UNCHANGED <<args, filename, absFilename, now, listing, backups>>

(***************************************************************************)
(* restore                                                                 *)
(***************************************************************************)

\* searchOnS3 on the listing res: the parsed candidates, then the selection
\* unless parsing raised
searchOutcome(res) ==
    LET parsed == ParseLines(res, args.sourceDbName, <<>>)
    IN  IF parsed.exc # "none"
        THEN [backups |-> parsed.backups, found |-> Outcome(parsed.exc, 1, <<>>, NoText)]
        ELSE [backups |-> parsed.backups,
              found |-> selectBackup(parsed.backups, args.date, args.name)]

\* searchOnS3: `aws s3 ls` through subprocess.check_output, which raises
\* CalledProcessError on a non-zero exit; then parse and select
searchOnS3 ==
    /\ pc = "search"
    /\ \/ /\ events' = Append(events, Event("s3_ls", NoText, 1))
          /\ raise("CalledProcessError")
          /\ UNCHANGED <<filename, listing, backups, logs>>
       \/ \E res \in Listings : \E r \in { searchOutcome(res) } :
            /\ events' = Append(events, Event("s3_ls", NoText, 0))
            /\ listing' = res
            /\ backups' = r.backups
            /\ logs' = Append(logs, "Success") \o r.found.logs
            /\ filename' = r.found.match
            /\ exc' = r.found.exc
            /\ exitCode' = r.found.exit
            /\ pc' = IF r.found.exit = Running THEN "confirm" ELSE "done"
    /\ UNCHANGED <<args, absFilename, now>>

\* restore fileserver / restore local: both end in a NameError
\* (`dbname` at the download check, `filename` at the local prompt)
restoreWithoutSearch ==
    /\ pc = "nosearch"
    /\ raise("NameError")
    /\ UNCHANGED <<args, filename, absFilename, now, listing, backups, events, logs>>

\* exit status when the user declines "Would you like to restore it?"
DeclineStatus == 0

\* "Found matching backup", promptYesNo("Would you like to restore it?")
confirmRestore ==
    /\ pc = "confirm"
    /\ \E choice \in Answers :
         /\ events' = PromptEvents(choice)
         /\ IF promptYesNo(choice)
            THEN /\ pc' = "download"
                 /\ UNCHANGED <<logs, exitCode>>
            ELSE /\ logs' = Append(logs, "Success")
                 /\ pc' = "done"
                 /\ exitCode' = DeclineStatus
    /\ UNCHANGED <<args, filename, absFilename, now, listing, backups, exc>>

\* downloadFromS3(bucket, workdir, filename, profile)
downloadFromS3 ==
    /\ pc = "download"
    /\ \E status \in ExitStatuses :
         /\ cmd("s3_download", filename, status, logs, "decrypt")
         /\ absFilename' = IF status = 0 THEN Workdir \o <<"/">> \o filename ELSE absFilename
    /\ UNCHANGED <<args, filename, now, listing, backups>>

\* decryptFile(absFilename) up to the gpg command
decryptFile ==
    /\ pc = "decrypt"
    /\ \E status \in ExitStatuses : cmd("gpg -d", absFilename, status, logs, "decrypt_rm")
    /\ UNCHANGED <<args, filename, absFilename, now, listing, backups>>

\* the reference decryptFile returns
decryptedRef(f) == DropLast(f, 4)

\* the reference gunzipFile returns
gunzippedRef(f) == DropLast(f, 3)

\* decryptFile: `rm -f` of the encrypted file, then return filename[:-4]
decryptCleanup ==
    /\ pc = "decrypt_rm"
    /\ \E status \in ExitStatuses :
         /\ cmd("rm", absFilename, status, logs, "gunzip")
         /\ absFilename' = IF status = 0 THEN decryptedRef(absFilename) ELSE absFilename
    /\ UNCHANGED <<args, filename, now, listing, backups>>

\* gunzipFile(absFilename), then `if not absFilename:` whose body raises
\* NameError (`dbname` is not defined)
gunzipFile ==
    /\ pc = "gunzip"
    /\ IF LastN(absFilename, 3) # ExtGz
       THEN /\ IF absFilename = NoText
               THEN raise("NameError")
               ELSE pc' = "restore" /\ UNCHANGED <<exitCode, exc>>
            /\ UNCHANGED <<absFilename, events, logs>>
       ELSE \E status \in ExitStatuses :
              /\ cmd("gunzip", absFilename, status, logs, "restore")
              /\ absFilename' = IF status = 0 THEN gunzippedRef(absFilename) ELSE absFilename
    /\ UNCHANGED <<args, filename, now, listing, backups>>

\* restoreDatabasePeer / restoreDatabasePassword: the prompt; a refusal
\* returns and the script runs to its end
restorePrompt ==
    /\ pc = "restore"
    /\ \E choice \in Answers :
         /\ events' = PromptEvents(choice)
         /\ IF promptYesNo(choice)
            THEN /\ pc' = IF args.peer THEN "createdb" ELSE "setpass"
                 /\ exitCode' = exitCode
            ELSE /\ pc' = "done"
                 /\ exitCode' = 0
    /\ UNCHANGED <<args, filename, absFilename, now, listing, backups, logs, exc>>

\* restoreDatabasePassword: `export PGPASSWORD=...`
setPgpassword ==
    /\ pc = "setpass"
    /\ \E status \in ExitStatuses : cmd("export", NoText, status, logs, "createdb")
    /\ UNCHANGED <<args, filename, absFilename, now, listing, backups>>

\* createdb
createDatabase ==
    /\ pc = "createdb"
    /\ \E status \in ExitStatuses :
         cmd("createdb", args.dbName, status, logs, IF args.peer THEN "psql" ELSE "clearpass")
    /\ UNCHANGED <<args, filename, absFilename, now, listing, backups>>

\* restoreDatabasePassword: `unset PGPASSWORD`
clearPgpassword ==
    /\ pc = "clearpass"
    /\ \E status \in ExitStatuses : cmd("unset", NoText, status, logs, "psql")
    /\ UNCHANGED <<args, filename, absFilename, now, listing, backups>>

\* psql < filename, then the end of the script
restoreDatabase ==
    /\ pc = "psql"
    /\ \E status \in ExitStatuses : cmd("psql", absFilename, status, logs, "done")
    /\ UNCHANGED <<args, filename, absFilename, now, listing, backups>>

Next ==
    \/ CheckWorkdir
    \/ DumpDatabase
    \/ gzipFile
    \/ encryptFile
    \/ encryptCleanup
    \/ uploadToS3
    \/ searchOnS3
    \/ restoreWithoutSearch
    \/ confirmRestore
    \/ downloadFromS3
    \/ decryptFile
    \/ decryptCleanup
    \/ gunzipFile
    \/ restorePrompt
    \/ setPgpassword
    \/ createDatabase
    \/ clearPgpassword
    \/ restoreDatabase

Spec == Init /\ [][Next]_vars
(***************************************************************************)
(* Properties                                                              *)
(***************************************************************************)

EventIndex == 1..Len(events)
IsPrompt(i) == events[i].tool = "raw_input"
SaidYes(i) == Lower(events[i].file) = <<"y">>
Ran(tool) == \E i \in EventIndex : events[i].tool = tool
LastLog == IF logs = <<>> THEN "" ELSE logs[Len(logs)]
RestoreFromS3 == args.command = "restore" /\ args.target = "s3"
\* `aws s3 ls` succeeded and neither parsing nor selection raised
Searched == RestoreFromS3 /\ Len(events) >= 1 /\ events[1].status = 0 /\ exc = "none"

\* C1: in a restore, createdb and psql run only after every confirmation
\* prompt before them was answered yes (and at least one was asked), or
\* under -x/--noconfirm; --silent makes no difference to this.
C1_RestoreNeedsConsent ==
    args.command = "restore" =>
        \A i \in EventIndex :
            events[i].tool \in {"export", "createdb", "unset", "psql"} =>
                \/ args.noconfirm
                \/ /\ \E j \in 1..(i - 1) : IsPrompt(j)
                   /\ \A j \in 1..(i - 1) : IsPrompt(j) => SaidYes(j)

\* a silent restore without -x that reached psql
C1_Witness ==
    /\ args.command = "restore" /\ args.silent /\ ~args.noconfirm
    /\ Ran("psql")
    /\ Cardinality({ j \in EventIndex : IsPrompt(j) }) = 2

\* C2: every external process that exits non-zero is the last thing the run
\* does, leaves ERROR as the last log line and ends the run with status 1.
C2_FailureLoggedAndFatal ==
    \A i \in EventIndex :
        (~IsPrompt(i) /\ events[i].status # 0) =>
            /\ i = Len(events)
            /\ pc = "done"
            /\ exitCode = 1
            /\ LastLog = "ERROR"

StageRank(tool) ==
    CASE tool = "pg_dump" -> 1 [] tool = "gzip" -> 2 [] tool \in {"gpg -e", "gpg -c"} -> 3
      [] tool = "rm" -> 4 [] tool = "s3_upload" -> 5 [] OTHER -> 0

\* the reference a finished stage hands to the next one
Produced(e) ==
    CASE e.tool = "gzip" -> e.file \o ExtGz
      [] e.tool = "rm" -> e.file \o ExtGpg
      [] OTHER -> e.file

Encrypting == args.gpgname \/ args.gpgpass

\* C3: a create run spawns dump, gzip (unless --nozip), gpg and its cleanup
\* (when a recipient or passphrase is set) and the upload (target s3 or all)
\* in that order, each after the previous one succeeded, each working on the
\* reference the previous one produced; a run that ends with status 0 ran
\* exactly the enabled stages.
C3_CreateOrder ==
    args.command = "create" =>
        /\ \A i \in EventIndex : StageRank(events[i].tool) > 0
        /\ events # <<>> => events[1].tool = "pg_dump"
        /\ \A i \in EventIndex : \A j \in EventIndex :
               i < j => /\ StageRank(events[i].tool) < StageRank(events[j].tool)
                        /\ events[i].status = 0
        /\ \A i \in 2..Len(events) : events[i].file = Produced(events[i - 1])
        /\ Ran("gzip") => ~args.nozip
        /\ (Ran("gpg -e") \/ Ran("gpg -c") \/ Ran("rm")) => Encrypting
        /\ Ran("s3_upload") => args.target \in {"s3", "all"}
        /\ (pc = "done" /\ exitCode = 0) =>
               /\ Ran("gzip") <=> ~args.nozip
               /\ Ran("rm") <=> Encrypting
               /\ Ran("gpg -e") <=> args.gpgname
               /\ Ran("gpg -c") <=> (args.gpgpass /\ ~args.gpgname)
               /\ Ran("s3_upload") <=> args.target \in {"s3", "all"}

\* a create run that compressed, encrypted and uploaded
C3_Witness ==
    /\ args.command = "create" /\ pc = "done" /\ exitCode = 0
    /\ Ran("gzip") /\ Ran("gpg -c") /\ Ran("s3_upload")
    /\ LastN(events[Len(events)].file, 7) = ExtGz \o ExtGpg

IsArtifact(f) == LastN(StripGz(StripGpg(f)), 7) = ExtPgdump
OriginalOf(f) == StripGz(StripGpg(f))
AfterUnpack == pc \in {"restore", "setpass", "createdb", "clearpass", "psql"}

\* C5: when a restore has decrypted and decompressed an artifact of create,
\* the reference it restores from is the original <db>__<timestamp>.pgdump
\* in the working directory, whichever of .gz and .gpg the artifact carried.
C5_UnpackYieldsOriginal ==
    (RestoreFromS3 /\ AfterUnpack /\ IsArtifact(filename)) =>
        absFilename = Workdir \o <<"/">> \o OriginalOf(filename)

\* C6: with --name=F and a candidate whose filename is F, the search
\* returns F; with no such candidate it ends the run with status 1.
C6_NameSelectsLiteral ==
    (Searched /\ args.name # NoText) =>
        IF \E k \in 1..Len(backups) : backups[k][3] = args.name
        THEN filename = args.name
        ELSE filename = NoText /\ exitCode = 1

\* the name with the suffixes the create run has added so far
ArtifactName == SliceFrom(absFilename, Len(Workdir) + 1)
Created == args.command = "create" /\ filename # NoText

\* C7 as stated: for a database name without "__", decoding the name of
\* the artifact gives back the database name and the timestamp.
C7_RoundTrip ==
    (Created /\ Find(args.dbName, Sep) = -1) =>
        parseFilename(ArtifactName) = <<args.dbName, now>>

\* C7 amended: the same for a database name that contains neither "__" nor
\* "/" and does not end with "_".
C7_RoundTripPlainName ==
    (Created /\ Find(args.dbName, Sep) = -1 /\ Find(args.dbName, <<"/">>) = -1
       /\ LastN(args.dbName, 1) # <<"_">>) =>
        parseFilename(ArtifactName) = <<args.dbName, now>>

\* a compressed and encrypted artifact of a database with "_" in its name
C7_Witness ==
    /\ Created /\ args.dbName = <<"a", "_", "b">>
    /\ LastN(ArtifactName, 14) = ExtPgdump \o ExtGz \o ExtGpg
    /\ now = <<2021, 3, 1, 9, 30, 5>>

\* C8: a listed filename without "__" never decodes to a pair.
C8_NoSeparatorFails ==
    RestoreFromS3 =>
        \A i \in 1..Len(listing) :
            (Len(listing[i]) = 4 /\ Find(listing[i][4], Sep) = -1) =>
                parseFilename(listing[i][4]) = ParseError

\* k is the first candidate with the greatest created_at among those in M
FirstNewestIn(M, k) ==
    /\ k \in M
    /\ \A j \in M : ~TupleGt(backups[j][2], backups[k][2])
    /\ \A j \in M : j < k => backups[j][2] # backups[k][2]

\* C9: without --date and --name, a search over a non-empty candidate list
\* returns the first candidate among those with the greatest created_at.
C9_NewestFirstWins ==
    (Searched /\ args.date = NoText /\ args.name = NoText /\ backups # <<>>) =>
        /\ filename # NoText
        /\ \E k \in 1..Len(backups) :
               FirstNewestIn(1..Len(backups), k) /\ filename = backups[k][3]

\* two candidates with the same created_at and different names
C9_Witness ==
    /\ Searched /\ args.date = NoText /\ args.name = NoText
    /\ Len(backups) = 2
    /\ backups[1][2] = backups[2][2] /\ backups[1][3] # backups[2][3]
    /\ filename = backups[1][3]

\* candidates whose calendar date is that of --date
OnTargetDate ==
    { k \in 1..Len(backups) :
        DateOf(backups[k][2]) = DateOf(strptime(args.date, DateFmt)) }

\* C10: with --date=d the search returns the newest candidate among those
\* dated d, and with no candidate dated d it ends the run with status 1
\* after logging an error, whatever other candidates exist.
C10_DateSelects ==
    (Searched /\ args.date # NoText /\ backups # <<>>) =>
        IF OnTargetDate = {}
        THEN filename = NoText /\ pc = "done" /\ exitCode = 1 /\ LastLog = "ERROR"
        ELSE /\ filename # NoText
             /\ \E k \in OnTargetDate :
                    FirstNewestIn(OnTargetDate, k) /\ filename = backups[k][3]

\* the candidate of the day is chosen although a newer one is listed
C10_Witness ==
    /\ Searched /\ args.date # NoText
    /\ Len(backups) = 2
    /\ OnTargetDate = {1}
    /\ TupleGt(backups[2][2], backups[1][2])
    /\ filename = backups[1][3]

\* the listing was obtained and searchOnS3 has finished, one way or another
SearchDone ==
    /\ RestoreFromS3 /\ pc \notin {"start", "search"}
    /\ Len(events) >= 1 /\ events[1].tool = "s3_ls" /\ events[1].status = 0

\* the line lists a backup whose decoded database name is the source name
ForSource(line) ==
    /\ Len(line) = 4
    /\ LET parsed == parseFilename(line[4])
       IN  parsed # ParseError /\ parsed[1] = args.sourceDbName

\* every line of the listing splits into four fields and decodes
AllDecode ==
    \A i \in 1..Len(listing) :
        Len(listing[i]) = 4 /\ parseFilename(listing[i][4]) # ParseError

\* C11: when no listed backup decodes to the requested source name, the
\* search ends the run with status 1 whatever --date or --name says, with
\* nothing selected and no prompt, download or database command run; when
\* every line decodes the last log line is the error of the empty check.
C11_NoBackupsExitsOne ==
    (SearchDone /\ \A i \in 1..Len(listing) : ~ForSource(listing[i])) =>
        /\ exitCode = 1 /\ pc = "done"
        /\ filename = NoText
        /\ Len(events) = 1
        /\ AllDecode => (exc = "none" /\ backups = <<>> /\ LastLog = "ERROR")

\* --date is given and only a backup of another database is listed
C11_Witness ==
    /\ SearchDone /\ args.date # NoText
    /\ Len(listing) >= 1 /\ AllDecode
    /\ \A i \in 1..Len(listing) : ~ForSource(listing[i])
    /\ \E i \in 1..Len(listing) : parseFilename(listing[i][4])[1] = OtherDb
    /\ args.sourceDbName = MyDb
    /\ exitCode = 1 /\ LastLog = "ERROR"

\* the lines of the listing that are backups of the source database
OwnLines == SelectSeq(listing, ForSource)

\* C12: the search over the whole listing selects the file, and ends, as
\* the search over the source database's own lines alone does.
C12_OtherEntriesIgnored ==
    (SearchDone /\ Len(events) = 1) =>
        /\ filename = searchOutcome(OwnLines).found.match
        /\ exitCode = searchOutcome(OwnLines).found.exit
====
